---- MODULE Spec2Model ----
(***************************************************************************)
(* A model of SciServer/CasJobs.py: the client operations of the CasJobs   *)
(* REST API.  The external collaborators (Authentication.getToken, Config, *)
(* the requests library and the server behind it) are inputs: every action *)
(* draws what they return from a small set.  Python values are records     *)
(* tagged with their type, so that bytes, str and parsed JSON differ.      *)
(***************************************************************************)
EXTENDS Integers, Sequences, FiniteSets, TLC

VARIABLES
    call,    \* the last call of a single-request operation, with its outcome
    files,   \* the local file system: file name -> content
    script,  \* what the k-th poll of the running waitForJob meets (token, response)
    wait     \* the waitForJob run, one per value of its verbose parameter

vars == <<call, files, script, wait>>

\* ------------------------------------------------------------ Python values

PyNone == [type |-> "NoneType"]
PyStr(s) == [type |-> "str", data |-> s]
PyBytes(s) == [type |-> "bytes", data |-> s]
PyInt(n) == [type |-> "int", n |-> n]
PyTrue == [type |-> "bool", b |-> TRUE]
PyDict(d) == [type |-> "dict", d |-> d]
PyList(l) == [type |-> "list", l |-> l]
StringIO(s) == [type |-> "StringIO", data |-> s]

Return(v) == [kind |-> "return", value |-> v]
Raise(cls, msg) == [kind |-> "raise", cls |-> cls, msg |-> msg]

\* ------------------------------------------------- the inputs of the model

MaxPolls == 3

Tokens == {PyNone, PyStr(""), PyStr("tok")}
Contexts == {"MyDB", "MyScratch"}
Sqls == {"select 1 as foo"}
Formats == {"pandas", "csv", "readable", "fits", "json", "xml"}
JobIds == {7}
FileNames == {"out.fits"}
TableNames == {"NewTable"}
KeystoneIds == {"kid"}
CasJobsRESTUri == "https://casjobs/RestApi"

\* response bodies, as the bytes the server sends
UserBody == "{\"WebServicesId\":42}"
TablesBody == "[{\"Name\":\"t\",\"Rows\":1}]"
ResultBody == "{\"Result\":[{\"Columns\":[\"foo\"],\"Data\":[[1]]}]}"
CsvBody == "foo\n1\n"
JobIdBody == "42"
ErrorBody == "Internal error"
FitsBody == "SIMPLE = T \\xff\\xfe"
JobListBody == "[]"
JobBody(s) == "{\"Status\":" \o ToString(s) \o "}"
JobStatuses == 0 .. 5

\* bodies that are not valid UTF-8
NotUtf8 == {FitsBody}

TransportError == [conn |-> "fail"]
Http(status, body) == [conn |-> "ok", status_code |-> status, content |-> PyBytes(body)]
StatusCodes == {200, 204, 500}
Bodies == {UserBody, TablesBody, ResultBody, CsvBody, JobIdBody, ErrorBody, FitsBody}
Responses == {TransportError} \cup {Http(s, b) : s \in StatusCodes, b \in Bodies}

\* what the job-status endpoint answers
JobResponses ==
    {TransportError, Http(500, ErrorBody), Http(204, JobBody(3)), Http(200, FitsBody),
     Http(200, JobListBody)} \cup {Http(200, JobBody(s)) : s \in JobStatuses}

\* what a poll of waitForJob meets: no token (and then no request), or a token
\* and the answer of the endpoint
PollEnvs ==
    {[token |-> t, resp |-> TransportError] : t \in {PyNone, PyStr("")}}
    \cup {[token |-> PyStr("tok"), resp |-> r] : r \in JobResponses}

\* ------------------------------------------------------- library functions

\* bytes.decode(): UTF-8, strict
Decode(content) ==
    IF content.data \in NotUtf8
    THEN Raise("UnicodeDecodeError", <<"'utf-8' codec can't decode">>)
    ELSE Return(PyStr(content.data))

\* str.encode(): the same characters, as bytes
Encode(s) == [s EXCEPT !.type = "bytes"]

\* json.loads on the texts the model's server sends
JsonLoads(text) ==
    CASE text = UserBody -> Return(PyDict([WebServicesId |-> 42]))
      [] text = TablesBody -> Return(PyList(<<[Name |-> "t", Rows |-> 1]>>))
      [] text = ResultBody ->
            Return(PyDict([Result |-> <<[Columns |-> <<"foo">>, Data |-> <<<<1>>>>]>>]))
      [] text = JobIdBody -> Return(PyInt(42))
      [] text = JobListBody -> Return(PyList(<<>>))
      [] \E s \in JobStatuses : text = JobBody(s) ->
            Return(PyDict([Status |-> CHOOSE s \in JobStatuses : text = JobBody(s)]))
      [] OTHER -> Raise("JSONDecodeError", <<"Expecting value">>)

\* int(str)
IntOfStr(text) ==
    IF text = JobIdBody THEN Return(PyInt(42))
    ELSE Raise("ValueError", <<"invalid literal for int() with base 10", text>>)

\* json.dumps({"Query": sql, "TaskName": TaskName})
JsonDumpsQuery(sql, TaskName) ==
    PyStr("{\"Query\": \"" \o sql \o "\", \"TaskName\": \"" \o TaskName \o "\"}")

\* requests.get / post / put: the request goes out, then the server's answer
\* comes back or the transport fails
Request(method, url, headers, data) ==
    [method |-> method, url |-> url, headers |-> headers, data |-> data]

Header(req, name) == {h[2] : h \in {x \in req.headers : x[1] = name}}

\* ------------------------------------------------------------- CasJobs.py

\* token is not None and token != ""
TokenDefined(token) == token # PyNone /\ token # PyStr("")

NotLoggedIn == Raise("Exception", <<"User token is not defined. First log into SciServer.">>)

\* the Exception raised on a status code other than 200; the body is decoded
\* while the message is built
HttpError(prefix, resp) ==
    LET text == Decode(resp.content) IN
    IF text.kind = "raise" THEN text
    ELSE Raise("Exception",
               <<prefix, "Http Response from CasJobs API returned status code ",
                 ToString(resp.status_code), ":\n", text.value.data>>)

ConnectionError == Raise("ConnectionError", <<"Connection aborted">>)

\* a result: the outcome, and the requests issued on the way
Result(out, reqs) == [out |-> out, reqs |-> reqs]

getSchemaName(token, keystoneUserId, resp) ==
    IF TokenDefined(token) THEN
        LET usersUrl == CasJobsRESTUri \o "/users/" \o keystoneUserId
            headers == {<<"X-Auth-Token", token.data>>, <<"Content-Type", "application/json">>}
            reqs == <<Request("GET", usersUrl, headers, PyNone)>>
        IN  IF resp.conn = "fail" THEN Result(ConnectionError, reqs)
            ELSE IF resp.status_code # 200
            THEN Result(HttpError("Error when getting schema name. ", resp), reqs)
            ELSE LET text == Decode(resp.content) IN
                 IF text.kind = "raise" THEN Result(text, reqs)
                 ELSE LET jsonResponse == JsonLoads(text.value.data) IN
                      IF jsonResponse.kind = "raise" THEN Result(jsonResponse, reqs)
                      ELSE IF jsonResponse.value.type # "dict"
                      THEN Result(Raise("TypeError", <<"indices must be integers">>), reqs)
                      ELSE IF "WebServicesId" \notin DOMAIN jsonResponse.value.d
                      THEN Result(Raise("KeyError", <<"WebServicesId">>), reqs)
                      ELSE Result(Return(PyStr("wsid_" \o
                                  ToString(jsonResponse.value.d.WebServicesId))), reqs)
    ELSE Result(NotLoggedIn, <<>>)

getTables(token, context, resp) ==
    IF TokenDefined(token) THEN
        LET TablesUrl == CasJobsRESTUri \o "/contexts/" \o context \o "/Tables"
            headers == {<<"X-Auth-Token", token.data>>, <<"Content-Type", "application/json">>}
            reqs == <<Request("GET", TablesUrl, headers, PyNone)>>
        IN  IF resp.conn = "fail" THEN Result(ConnectionError, reqs)
            ELSE IF resp.status_code # 200
            THEN Result(HttpError("Error when getting table description from database context "
                                  \o context \o ".\n", resp), reqs)
            ELSE LET text == Decode(resp.content) IN
                 IF text.kind = "raise" THEN Result(text, reqs)
                 ELSE Result(JsonLoads(text.value.data), reqs)
    ELSE Result(NotLoggedIn, <<>>)

\* an Accept header that asks for plain JSON when the format is "json"
AcceptHeader_PlainJson(format) ==
    IF format = "pandas" THEN "application/json+array"
    ELSE IF format = "json" THEN "application/json"
    ELSE IF format = "csv" \/ format = "readable" THEN "text/plain"
    ELSE "application/fits"

\* the Accept header of a format, lines 89-94
AcceptHeader(format) ==
    IF format = "pandas" \/ format = "json" THEN "application/json+array"
    ELSE IF format = "csv" \/ format = "readable" THEN "text/plain"
    ELSE "application/fits"

\* a chain whose last branch is an else instead of elif format == "fits"
LegalFormat_ElseFits(format) == TRUE

\* the formats the if/elif chain of lines 89-96 lets through
LegalFormat(format) ==
    \/ format = "pandas" \/ format = "json"
    \/ format = "csv" \/ format = "readable"
    \/ format = "fits"

IllegalFormat(format) ==
    Raise("Exception",
          <<"Error when executing query. Illegal format parameter specification: ", format>>)

\* pandas.DataFrame(r['Result'][0]['Data'], columns=r['Result'][0]['Columns'])
DataFrameOfResult(r) ==
    IF r.type # "dict" THEN Raise("TypeError", <<"indices must be integers">>)
    ELSE IF "Result" \notin DOMAIN r.d THEN Raise("KeyError", <<"Result">>)
    ELSE Return([type |-> "DataFrame", indexName |-> PyNone,
                 index |-> [i \in 1 .. Len(r.d.Result[1].Data) |-> i - 1],
                 columns |-> r.d.Result[1].Columns, data |-> r.d.Result[1].Data])

\* lines 119-132: the decoded body, shaped by the format
DecodeByFormat(format, content) ==
    LET r == Decode(content) IN
    IF r.kind = "raise" THEN r
    ELSE IF format = "readable" THEN Return(StringIO(r.value))
    ELSE IF format = "pandas" THEN
        LET j == JsonLoads(r.value.data) IN
        IF j.kind = "raise" THEN j ELSE DataFrameOfResult(j.value)
    ELSE IF format = "csv" THEN Return(r.value)
    ELSE IF format = "json" THEN JsonLoads(r.value.data)
    ELSE IF format = "fits" THEN Return(StringIO(r.value))
    ELSE IllegalFormat(format)

\* the X-Auth-Token header of executeQuery, lines 111-113: set when there is a token
OptionalTokenHeader(token) ==
    IF TokenDefined(token) THEN {<<"X-Auth-Token", token.data>>} ELSE {}

executeQuery(token, isCompute, sql, context, format, resp) ==
    IF ~LegalFormat(format) THEN Result(IllegalFormat(format), <<>>)
    ELSE
        LET acceptHeader == AcceptHeader(format)
            QueryUrl == CasJobsRESTUri \o "/contexts/" \o context \o "/query"
            TaskName == IF isCompute THEN "Compute.SciScript-Python.CasJobs.executeQuery"
                        ELSE "SciScript-Python.CasJobs.executeQuery"
            data == Encode(JsonDumpsQuery(sql, TaskName))
            headers == {<<"Content-Type", "application/json">>, <<"Accept", acceptHeader>>}
                       \cup OptionalTokenHeader(token)
            reqs == <<Request("POST", QueryUrl, headers, data)>>
        IN  IF resp.conn = "fail" THEN Result(ConnectionError, reqs)
            ELSE IF resp.status_code # 200
            THEN Result(HttpError("Error when executing query. ", resp), reqs)
            ELSE Result(DecodeByFormat(format, resp.content), reqs)

submitJob(token, isCompute, sql, context, resp) ==
    IF TokenDefined(token) THEN
        LET QueryUrl == CasJobsRESTUri \o "/contexts/" \o context \o "/jobs"
            TaskName == IF isCompute THEN "Compute.SciScript-Python.CasJobs.submitJob"
                        ELSE "SciScript-Python.CasJobs.submitJob"
            data == Encode(JsonDumpsQuery(sql, TaskName))
            headers == {<<"Content-Type", "application/json">>, <<"Accept", "text/plain">>,
                        <<"X-Auth-Token", token.data>>}
            reqs == <<Request("PUT", QueryUrl, headers, data)>>
        IN  IF resp.conn = "fail" THEN Result(ConnectionError, reqs)
            ELSE IF resp.status_code # 200
            THEN Result(HttpError("Error when submitting a job. ", resp), reqs)
            ELSE LET text == Decode(resp.content) IN
                 IF text.kind = "raise" THEN Result(text, reqs)
                 ELSE Result(IntOfStr(text.value.data), reqs)
    ELSE Result(NotLoggedIn, <<>>)

getJobStatus(token, jobid, resp) ==
    IF TokenDefined(token) THEN
        LET QueryUrl == CasJobsRESTUri \o "/jobs/" \o ToString(jobid)
            headers == {<<"X-Auth-Token", token.data>>, <<"Content-Type", "application/json">>}
            reqs == <<Request("GET", QueryUrl, headers, PyNone)>>
        IN  IF resp.conn = "fail" THEN Result(ConnectionError, reqs)
            ELSE IF resp.status_code # 200
            THEN Result(HttpError("Error when getting the status of job " \o ToString(jobid)
                                  \o ".\n", resp), reqs)
            ELSE LET text == Decode(resp.content) IN
                 IF text.kind = "raise" THEN Result(text, reqs)
                 ELSE Result(JsonLoads(text.value.data), reqs)
    ELSE Result(NotLoggedIn, <<>>)

uploadCSVDataToTable(token, CVSdata, tableName, context, resp) ==
    IF TokenDefined(token) THEN
        LET tablesUrl == CasJobsRESTUri \o "/contexts/" \o context \o "/Tables/" \o tableName
            headers == {<<"X-Auth-Token", token.data>>}
            reqs == <<Request("POST", tablesUrl, headers, CVSdata)>>
        IN  IF resp.conn = "fail" THEN Result(ConnectionError, reqs)
            ELSE IF resp.status_code # 200
            THEN Result(HttpError("Error when uploading CSV data into CasJobs table "
                                  \o tableName \o ".\n", resp), reqs)
            ELSE Result(Return(PyTrue), reqs)
    ELSE Result(NotLoggedIn, <<>>)

\* ------------------------------------------------------------ waitForJob

waitingStr == "Waiting..."
back == "\\b\\b\\b\\b\\b\\b\\b\\b\\b\\b"
SleepSeconds == 2

Poll == [ev |-> "poll", secs |-> 0]
Sleep(secs) == [ev |-> "sleep", secs |-> secs]

\* a terminal test that forgets status 5 (cancelled)
IsTerminal_Without5(jobStatus) == jobStatus \in {3, 4}

\* jobStatus in (3, 4, 5)
IsTerminal(jobStatus) == jobStatus \in {3, 4, 5}

\* int(jobDesc["Status"])
StatusOf(jobDesc) ==
    IF jobDesc.type = "list" THEN Raise("TypeError", <<"list indices must be integers">>)
    ELSE IF jobDesc.type # "dict" THEN Raise("TypeError", <<"object is not subscriptable">>)
    ELSE IF "Status" \notin DOMAIN jobDesc.d THEN Raise("KeyError", <<"Status">>)
    ELSE Return(PyInt(jobDesc.d.Status))

\* lines 215-220: the run as it enters the loop
WaitStart(verbose, jobid) ==
    [pc |-> "loop", jobid |-> jobid, polls |-> 0, events |-> <<>>, reqs |-> <<>>,
     console |-> IF verbose THEN <<waitingStr>> ELSE <<>>,
     out |-> [kind |-> "running"]]

\* a loop that sleeps and polls again when the poll raised
LoopBody_RetryOnError(verbose, run, env) ==
    LET res == getJobStatus(env.token, run.jobid, env.resp)
        polled == [run EXCEPT !.polls = @ + 1,
                              !.events = Append(@, Poll),
                              !.reqs = @ \o res.reqs,
                              !.console = IF verbose THEN @ \o <<back, waitingStr>> ELSE @]
    IN  IF res.out.kind = "raise"
        THEN [polled EXCEPT !.pc = "sleep", !.events = Append(@, Sleep(SleepSeconds))]
        ELSE LET jobStatus == StatusOf(res.out.value) IN
             IF jobStatus.kind = "raise"
             THEN [polled EXCEPT !.pc = "raised", !.out = jobStatus]
             ELSE IF IsTerminal(jobStatus.value.n)
             THEN [polled EXCEPT !.pc = "returned", !.out = Return(res.out.value),
                                 !.console = IF verbose THEN @ \o <<back, "Done!">> ELSE @]
             ELSE [polled EXCEPT !.pc = "sleep",
                                 !.events = Append(@, Sleep(SleepSeconds))]

\* a loop that sleeps only when it is not verbose
LoopBody_VerboseNoSleep(verbose, run, env) ==
    LET res == getJobStatus(env.token, run.jobid, env.resp)
        polled == [run EXCEPT !.polls = @ + 1,
                              !.events = Append(@, Poll),
                              !.reqs = @ \o res.reqs,
                              !.console = IF verbose THEN @ \o <<back, waitingStr>> ELSE @]
    IN  IF res.out.kind = "raise" THEN [polled EXCEPT !.pc = "raised", !.out = res.out]
        ELSE LET jobStatus == StatusOf(res.out.value) IN
             IF jobStatus.kind = "raise"
             THEN [polled EXCEPT !.pc = "raised", !.out = jobStatus]
             ELSE IF IsTerminal(jobStatus.value.n)
             THEN [polled EXCEPT !.pc = "returned", !.out = Return(res.out.value),
                                 !.console = IF verbose THEN @ \o <<back, "Done!">> ELSE @]
             ELSE [polled EXCEPT !.pc = "sleep",
                                 !.events = IF verbose THEN @ ELSE Append(@, Sleep(SleepSeconds))]

\* a loop whose sleep grows with the number of polls
LoopBody_Backoff(verbose, run, env) ==
    LET res == getJobStatus(env.token, run.jobid, env.resp)
        polled == [run EXCEPT !.polls = @ + 1,
                              !.events = Append(@, Poll),
                              !.reqs = @ \o res.reqs,
                              !.console = IF verbose THEN @ \o <<back, waitingStr>> ELSE @]
    IN  IF res.out.kind = "raise" THEN [polled EXCEPT !.pc = "raised", !.out = res.out]
        ELSE LET jobStatus == StatusOf(res.out.value) IN
             IF jobStatus.kind = "raise"
             THEN [polled EXCEPT !.pc = "raised", !.out = jobStatus]
             ELSE IF IsTerminal(jobStatus.value.n)
             THEN [polled EXCEPT !.pc = "returned", !.out = Return(res.out.value),
                                 !.console = IF verbose THEN @ \o <<back, "Done!">> ELSE @]
             ELSE [polled EXCEPT !.pc = "sleep",
                                 !.events = Append(@, Sleep(SleepSeconds * polled.polls))]

\* lines 222-238: one iteration of the loop, on what the poll meets; the run
\* returns jobDesc, raises what the iteration raised, or goes to sleep
LoopBody(verbose, run, env) ==
    LET res == getJobStatus(env.token, run.jobid, env.resp)
        polled == [run EXCEPT !.polls = @ + 1,
                              !.events = Append(@, Poll),
                              !.reqs = @ \o res.reqs,
                              !.console = IF verbose THEN @ \o <<back, waitingStr>> ELSE @]
    IN  IF res.out.kind = "raise" THEN [polled EXCEPT !.pc = "raised", !.out = res.out]
        ELSE LET jobStatus == StatusOf(res.out.value) IN
             IF jobStatus.kind = "raise"
             THEN [polled EXCEPT !.pc = "raised", !.out = jobStatus]
             ELSE IF IsTerminal(jobStatus.value.n)
             THEN [polled EXCEPT !.pc = "returned", !.out = Return(res.out.value),
                                 !.console = IF verbose THEN @ \o <<back, "Done!">> ELSE @]
             ELSE [polled EXCEPT !.pc = "sleep",
                                 !.events = Append(@, Sleep(SleepSeconds))]

\* ----------------------------------------------------- the export helpers

\* file.write of a file opened "w+b"
BinaryWrite(data) ==
    IF data.type = "bytes" THEN Return(data)
    ELSE Raise("TypeError", <<"a bytes-like object is required, not 'str'">>)

\* StringIO.read()
Read(sio) == sio.data

getFitsFileFromQuery(token, isCompute, fileName, queryString, context, resp, canOpen, fs) ==
    LET fitsResponse == executeQuery(token, isCompute, queryString, context, "fits", resp) IN
    IF fitsResponse.out.kind = "raise"
    THEN [out |-> fitsResponse.out, reqs |-> fitsResponse.reqs, files |-> fs]
    ELSE IF ~canOpen
    THEN [out |-> Raise("OSError", <<"No such file or directory", fileName>>),
          reqs |-> fitsResponse.reqs, files |-> fs]
    ELSE LET opened == [fs EXCEPT ![fileName] = PyBytes("")]
             written == BinaryWrite(Read(fitsResponse.out.value))
         IN  IF written.kind = "raise"
             THEN [out |-> written, reqs |-> fitsResponse.reqs, files |-> opened]
             ELSE [out |-> Return(PyTrue), reqs |-> fitsResponse.reqs,
                   files |-> [opened EXCEPT ![fileName] = written.value]]

\* pandas.read_csv(readable, index_col=index_col): the frame of the text
ReadCsv(readable, index_col) ==
    Return([type |-> "DataFrame", text |-> Read(readable), index_col |-> index_col])

getPandasDataFrameFromQuery(token, isCompute, queryString, context, index_col, resp) ==
    LET cvsResponse == executeQuery(token, isCompute, queryString, context, "readable", resp) IN
    IF cvsResponse.out.kind = "raise" THEN cvsResponse
    ELSE Result(ReadCsv(cvsResponse.out.value, index_col), cvsResponse.reqs)

getNumpyArrayFromQuery(token, isCompute, queryString, context, resp) ==
    LET dataFrame == getPandasDataFrameFromQuery(token, isCompute, queryString, context,
                                                 PyNone, resp) IN
    IF dataFrame.out.kind = "raise" THEN dataFrame
    ELSE Result(Return([type |-> "ndarray", values |-> dataFrame.out.value]), dataFrame.reqs)

\* ----------------------------------------------------- the upload helpers

DataFrames ==
    {[type |-> "DataFrame", indexName |-> n, index |-> <<0, 1>>,
      columns |-> <<"a", "b">>, data |-> <<<<1, 2>>, <<3, 4>>>>] :
        n \in {PyNone, PyStr(""), PyStr("id")}}

\* DataFrame.to_csv(): the header line (the index name, empty when the index
\* has none, then the column labels), then one line per row, index first
ToCsv(dataFrame) ==
    LET label == IF dataFrame.indexName = PyNone THEN "" ELSE dataFrame.indexName.data
        line(i) == <<ToString(dataFrame.index[i])>> \o
                   [j \in 1 .. Len(dataFrame.data[i]) |-> ToString(dataFrame.data[i][j])]
    IN  [type |-> "str",
         lines |-> <<<<label>> \o dataFrame.columns>> \o
                   [i \in 1 .. Len(dataFrame.data) |-> line(i)]]

\* a default that is given to a None name only, not to an empty one
NameIndex_NoneOnly(dataFrame) ==
    IF dataFrame.indexName = PyNone
    THEN [dataFrame EXCEPT !.indexName = PyStr("index")]
    ELSE dataFrame

\* lines 328-329
NameIndex(dataFrame) ==
    IF dataFrame.indexName = PyStr("") \/ dataFrame.indexName = PyNone
    THEN [dataFrame EXCEPT !.indexName = PyStr("index")]
    ELSE dataFrame

uploadPandasDataFrameToTable(token, dataFrame, tableName, context, resp) ==
    LET named == NameIndex(dataFrame)
        sio == Encode(ToCsv(named))
        res == uploadCSVDataToTable(token, sio, tableName, context, resp)
    IN  [out |-> res.out, reqs |-> res.reqs, dataFrame |-> named,
         calls |-> <<[fn |-> "uploadCSVDataToTable", CVSdata |-> sio,
                      tableName |-> tableName, context |-> context, res |-> res]>>]

\* ------------------------------------------------------------ the machine

NoCall == [op |-> "none"]
Idle == [pc |-> "idle"]
Absent == [type |-> "absent"]

Init ==
    /\ call = NoCall
    /\ files \in [FileNames -> {Absent, PyBytes("old")}]
    /\ script = <<>>
    /\ wait = [v \in BOOLEAN |-> Idle]

\* waitForJob blocks its caller: nothing else runs while it polls
Blocked == \E v \in BOOLEAN : wait[v].pc \in {"loop", "sleep"}

CallGetSchemaName ==
    /\ call = NoCall
    /\ \E token \in Tokens, keystoneUserId \in KeystoneIds, resp \in Responses :
        call' = [op |-> "getSchemaName", token |-> token, resp |-> resp,
                 res |-> getSchemaName(token, keystoneUserId, resp)]
    /\ UNCHANGED <<files, script, wait>>

CallGetTables ==
    /\ call = NoCall
    /\ \E token \in Tokens, context \in Contexts, resp \in Responses :
        call' = [op |-> "getTables", token |-> token, context |-> context, resp |-> resp,
                 res |-> getTables(token, context, resp)]
    /\ UNCHANGED <<files, script, wait>>

CallExecuteQuery ==
    /\ call = NoCall
    /\ \E token \in Tokens, isCompute \in BOOLEAN, sql \in Sqls, context \in Contexts,
          format \in Formats, resp \in Responses :
        call' = [op |-> "executeQuery", token |-> token, sql |-> sql, context |-> context,
                 format |-> format, resp |-> resp,
                 res |-> executeQuery(token, isCompute, sql, context, format, resp)]
    /\ UNCHANGED <<files, script, wait>>

CallSubmitJob ==
    /\ call = NoCall
    /\ \E token \in Tokens, isCompute \in BOOLEAN, sql \in Sqls, context \in Contexts,
          resp \in Responses :
        call' = [op |-> "submitJob", token |-> token, sql |-> sql, context |-> context,
                 resp |-> resp, res |-> submitJob(token, isCompute, sql, context, resp)]
    /\ UNCHANGED <<files, script, wait>>

CallGetJobStatus ==
    /\ call = NoCall
    /\ \E token \in Tokens, jobid \in JobIds, resp \in JobResponses :
        call' = [op |-> "getJobStatus", token |-> token, jobid |-> jobid, resp |-> resp,
                 res |-> getJobStatus(token, jobid, resp)]
    /\ UNCHANGED <<files, script, wait>>

CallUploadCSVDataToTable ==
    /\ call = NoCall
    /\ \E token \in Tokens, dataFrame \in DataFrames, tableName \in TableNames,
          context \in Contexts, resp \in Responses :
        call' = [op |-> "uploadCSVDataToTable", token |-> token,
                 CVSdata |-> Encode(ToCsv(dataFrame)),
                 tableName |-> tableName, context |-> context, resp |-> resp,
                 res |-> uploadCSVDataToTable(token, Encode(ToCsv(dataFrame)), tableName,
                                              context, resp)]
    /\ UNCHANGED <<files, script, wait>>

CallUploadPandasDataFrameToTable ==
    /\ call = NoCall
    /\ \E token \in Tokens, dataFrame \in DataFrames, tableName \in TableNames,
          context \in Contexts, resp \in Responses :
        call' = [op |-> "uploadPandasDataFrameToTable", token |-> token,
                 dataFrame |-> dataFrame, tableName |-> tableName, context |-> context,
                 resp |-> resp,
                 res |-> uploadPandasDataFrameToTable(token, dataFrame, tableName,
                                                      context, resp)]
    /\ UNCHANGED <<files, script, wait>>

CallGetFitsFileFromQuery ==
    /\ call = NoCall
    /\ \E token \in Tokens, isCompute \in BOOLEAN, fileName \in FileNames,
          queryString \in Sqls, context \in Contexts, resp \in Responses,
          canOpen \in BOOLEAN :
        LET res == getFitsFileFromQuery(token, isCompute, fileName, queryString, context,
                                        resp, canOpen, files)
        IN  /\ call' = [op |-> "getFitsFileFromQuery", token |-> token,
                        fileName |-> fileName, context |-> context, resp |-> resp,
                        canOpen |-> canOpen,
                        res |-> Result(res.out, res.reqs)]
            /\ files' = res.files
    /\ UNCHANGED <<script, wait>>

CallGetPandasDataFrameFromQuery ==
    /\ call = NoCall
    /\ \E token \in Tokens, isCompute \in BOOLEAN, queryString \in Sqls,
          context \in Contexts, index_col \in {PyNone, PyInt(0)}, resp \in Responses :
        call' = [op |-> "getPandasDataFrameFromQuery", token |-> token,
                 context |-> context, resp |-> resp,
                 res |-> getPandasDataFrameFromQuery(token, isCompute, queryString,
                                                     context, index_col, resp)]
    /\ UNCHANGED <<files, script, wait>>

CallGetNumpyArrayFromQuery ==
    /\ call = NoCall
    /\ \E token \in Tokens, isCompute \in BOOLEAN, queryString \in Sqls,
          context \in Contexts, resp \in Responses :
        call' = [op |-> "getNumpyArrayFromQuery", token |-> token,
                 context |-> context, resp |-> resp,
                 res |-> getNumpyArrayFromQuery(token, isCompute, queryString, context,
                                                resp)]
    /\ UNCHANGED <<files, script, wait>>

\* waitForJob(jobid, verbose) is called: the run with verbose and the run
\* without it start side by side, and meet the same polls
CallWaitForJob ==
    /\ call = NoCall
    /\ \E jobid \in JobIds :
        /\ call' = [op |-> "waitForJob", jobid |-> jobid]
        /\ wait' = [v \in BOOLEAN |-> WaitStart(v, jobid)]
    /\ script' = <<>>
    /\ UNCHANGED files

\* one iteration of the loop of the run with verbose = v: its poll meets the
\* next entry of the script, which the first run to get there draws
WaitPoll(v) ==
    /\ wait[v].pc = "loop"
    /\ wait[v].polls < MaxPolls
    /\ \E env \in PollEnvs :
        /\ IF wait[v].polls < Len(script)
           THEN env = script[wait[v].polls + 1] /\ UNCHANGED script
           ELSE script' = Append(script, env)
        /\ wait' = [wait EXCEPT ![v] = LoopBody(v, @, env)]
    /\ UNCHANGED <<call, files>>

\* time.sleep(2) returns: back to the head of the loop
WaitWake(v) ==
    /\ wait[v].pc = "sleep"
    /\ wait' = [wait EXCEPT ![v].pc = "loop"]
    /\ UNCHANGED <<call, files, script>>

\* the caller has the outcome and goes on: nothing of a call is kept
CallerContinues ==
    /\ call # NoCall
    /\ ~Blocked
    /\ call' = NoCall
    /\ script' = <<>>
    /\ wait' = [v \in BOOLEAN |-> Idle]
    /\ UNCHANGED files

Next ==
    \/ CallGetSchemaName
    \/ CallGetTables
    \/ CallExecuteQuery
    \/ CallSubmitJob
    \/ CallGetJobStatus
    \/ CallUploadCSVDataToTable
    \/ CallUploadPandasDataFrameToTable
    \/ CallGetFitsFileFromQuery
    \/ CallGetPandasDataFrameFromQuery
    \/ CallGetNumpyArrayFromQuery
    \/ CallWaitForJob
    \/ \E v \in BOOLEAN : WaitPoll(v)
    \/ \E v \in BOOLEAN : WaitWake(v)
    \/ CallerContinues

Spec == Init /\ [][Next]_vars

\* ------------------------------------------------------------- the claims

TerminalStatuses == {3, 4, 5}
Running(run) == run.pc \in {"loop", "sleep"}
Ended(run) == run.pc \in {"returned", "raised"}

\* the poll met a token and a 200 answer whose record has Status s
Reports(env, s) == env.token = PyStr("tok") /\ env.resp = Http(200, JobBody(s))
ReportsTerminal(env) == \E s \in TerminalStatuses : Reports(env, s)
ReportsPending(env) == \E s \in JobStatuses \ TerminalStatuses : Reports(env, s)

\* the poll failed: no token, a transport error, or a status code other than 200
NoToken(env) == env.token = PyNone \/ env.token = PyStr("")
PollFails(env) ==
    NoToken(env) \/ env.resp = TransportError \/ env.resp.status_code # 200

Count(events, ev) == Cardinality({i \in 1 .. Len(events) : events[i].ev = ev})

C1_Returned ==
    \A v \in BOOLEAN :
        /\ wait[v].pc = "returned" =>
            /\ wait[v].polls >= 1
            /\ wait[v].polls = Len(script)
            /\ \A i \in 1 .. wait[v].polls - 1 : ReportsPending(script[i])
            /\ \E s \in TerminalStatuses :
                /\ Reports(script[wait[v].polls], s)
                /\ wait[v].out = Return(PyDict([Status |-> s]))
            /\ Count(wait[v].events, "poll") = wait[v].polls
            /\ Len(wait[v].reqs) = wait[v].polls
        /\ Running(wait[v]) =>
            \A i \in 1 .. wait[v].polls : ~ReportsTerminal(script[i])

C1_NoPollAfterReturn ==
    \A v \in BOOLEAN :
        wait[v].pc = "returned" => wait'[v] = wait[v] \/ wait'[v].pc = "idle"

\* C1: waitForJob returns exactly at the first poll whose Status is in
\* {3,4,5}: every earlier poll reported a status outside {3,4,5}, the record
\* returned is the one of that poll, the run has polled exactly that many
\* times, a run that has seen a status in {3,4,5} is not polling any more, and
\* a run that has returned polls no more.  A run returns in no other way.
C1_WaitReturnsAtFirstTerminal == []C1_Returned /\ [][C1_NoPollAfterReturn]_vars

C1_Witness ==
    \E v \in BOOLEAN :
        /\ wait[v].pc = "returned"
        /\ wait[v].polls = 3
        /\ wait[v].out = Return(PyDict([Status |-> 5]))

AuthenticatedOps ==
    {"getSchemaName", "getTables", "executeQuery", "submitJob", "getJobStatus",
     "uploadCSVDataToTable", "getFitsFileFromQuery", "getPandasDataFrameFromQuery",
     "getNumpyArrayFromQuery", "uploadPandasDataFrameToTable"}

NotLoggedInMessage == <<"User token is not defined. First log into SciServer.">>

\* C2: without a token (None or the empty string) every authenticated
\* operation raises the "not logged in" error and issues no request; so does
\* waitForJob at its first poll.
C2_NoTokenNoRequest ==
    /\ (call.op \in AuthenticatedOps /\ (call.token = PyNone \/ call.token = PyStr(""))) =>
        /\ call.res.reqs = <<>>
        /\ call.res.out = Raise("Exception", NotLoggedInMessage)
    /\ \A v \in BOOLEAN :
        (wait[v].pc # "idle" /\ wait[v].polls = 1 /\ NoToken(script[1])) =>
            /\ wait[v].reqs = <<>>
            /\ wait[v].out = Raise("Exception", NotLoggedInMessage)

\* C3: executeQuery with a format outside {"pandas","csv","readable","fits",
\* "json"} raises the "illegal format" error and issues no request, whatever
\* the sql, the context and the token.
C3_IllegalFormatNoRequest ==
    (call.op = "executeQuery"
     /\ call.format \notin {"pandas", "csv", "readable", "fits", "json"}) =>
        /\ call.res.reqs = <<>>
        /\ call.res.out = Raise("Exception",
               <<"Error when executing query. Illegal format parameter specification: ",
                 call.format>>)

C3_Witness ==
    /\ call.op = "executeQuery"
    /\ call.format = "xml"
    /\ call.token = PyStr("tok")
    /\ call.resp = Http(200, CsvBody)
    /\ call.res.out.kind = "raise"

ExpectedAccept(format) ==
    CASE format \in {"pandas", "json"} -> "application/json+array"
      [] format \in {"csv", "readable"} -> "text/plain"
      [] format = "fits" -> "application/fits"

\* C4: executeQuery with a legal format issues exactly one request, a POST to
\* the query endpoint of the context, whose Accept header is the one of the
\* format: the array representation for pandas and json, plain text for csv
\* and readable, the binary table for fits.
C4_OneRequestWithAccept ==
    (call.op = "executeQuery"
     /\ call.format \in {"pandas", "csv", "readable", "fits", "json"}) =>
        /\ Len(call.res.reqs) = 1
        /\ call.res.reqs[1].method = "POST"
        /\ call.res.reqs[1].url = CasJobsRESTUri \o "/contexts/" \o call.context \o "/query"
        /\ Header(call.res.reqs[1], "Accept") = {ExpectedAccept(call.format)}

C4_Witness ==
    /\ call.op = "executeQuery"
    /\ call.format = "json"
    /\ call.resp = Http(200, ResultBody)
    /\ call.res.out.kind = "return"
    /\ Len(call.res.reqs) = 1

EndpointOps ==
    {"getSchemaName", "getTables", "executeQuery", "submitJob", "getJobStatus",
     "uploadCSVDataToTable"}

InMessage(msg, part) == \E i \in 1 .. Len(msg) : msg[i] = part

\* C5: an answer whose status code is not 200 makes the endpoint operation
\* raise a failure that carries the status code and the text of the body; the
\* request is issued once.
C5_Non200CarriesStatusAndBody ==
    (/\ call.op \in EndpointOps
     /\ call.res.reqs # <<>>
     /\ call.resp # TransportError
     /\ call.resp.status_code # 200) =>
        /\ call.res.out.kind = "raise"
        /\ InMessage(call.res.out.msg, ToString(call.resp.status_code))
        /\ InMessage(call.res.out.msg, call.resp.content.data)
        /\ Len(call.res.reqs) = 1

C6_Raised ==
    \A v \in BOOLEAN :
        /\ (wait[v].pc # "idle" /\ wait[v].polls >= 1 /\ PollFails(script[wait[v].polls])) =>
            /\ wait[v].pc = "raised"
            /\ wait[v].out.kind = "raise"
            /\ NoToken(script[wait[v].polls]) =>
                    wait[v].out = Raise("Exception", NotLoggedInMessage)
            /\ (~NoToken(script[wait[v].polls])
                /\ script[wait[v].polls].resp = TransportError) =>
                    wait[v].out.cls = "ConnectionError"
            /\ wait[v].events[Len(wait[v].events)] = Poll
            /\ Count(wait[v].events, "poll") = wait[v].polls
            /\ Count(wait[v].events, "sleep") = wait[v].polls - 1
        /\ Running(wait[v]) =>
            \A i \in 1 .. wait[v].polls : ReportsPending(script[i])

C6_NothingAfterRaise ==
    \A v \in BOOLEAN :
        wait[v].pc = "raised" => wait'[v] = wait[v] \/ wait'[v].pc = "idle"

\* C6: the loop of waitForJob goes round only after a poll that succeeded and
\* reported a status outside {3,4,5}: a poll that fails (no token, transport
\* error, status code other than 200) ends the run with that failure, however
\* many polls went before, and the run does not sleep or poll after it.
C6_PollFailurePropagates == []C6_Raised /\ [][C6_NothingAfterRaise]_vars

C6_Witness ==
    \E v \in BOOLEAN :
        /\ wait[v].pc = "raised"
        /\ wait[v].polls = 3
        /\ script[3] = [token |-> PyStr("tok"), resp |-> TransportError]

IsPrefix(a, b) == Len(a) <= Len(b) /\ \A i \in 1 .. Len(a) : a[i] = b[i]

\* C7: the run with verbose and the run without it, on the same polls, issue
\* the same requests and make the same polls and sleeps in the same order
\* (at any moment one is a prefix of the other), and once both have ended
\* they ended the same way with the same record or failure; only the console
\* differs.
C7_VerboseChangesNothing ==
    wait[TRUE].pc # "idle" =>
        /\ IsPrefix(wait[TRUE].events, wait[FALSE].events)
           \/ IsPrefix(wait[FALSE].events, wait[TRUE].events)
        /\ IsPrefix(wait[TRUE].reqs, wait[FALSE].reqs)
           \/ IsPrefix(wait[FALSE].reqs, wait[TRUE].reqs)
        /\ wait[TRUE].polls = wait[FALSE].polls =>
            \/ wait[TRUE].pc = wait[FALSE].pc
            \/ {wait[TRUE].pc, wait[FALSE].pc} = {"loop", "sleep"}
        /\ (Ended(wait[TRUE]) /\ Ended(wait[FALSE])) =>
            /\ wait[TRUE].pc = wait[FALSE].pc
            /\ wait[TRUE].out = wait[FALSE].out
            /\ wait[TRUE].events = wait[FALSE].events
            /\ wait[TRUE].reqs = wait[FALSE].reqs
        /\ wait[FALSE].console = <<>>

C7_Witness ==
    /\ wait[TRUE].pc = "returned"
    /\ wait[FALSE].pc = "returned"
    /\ wait[TRUE].polls = 2
    /\ Count(wait[FALSE].events, "sleep") = 1
    /\ wait[TRUE].console # wait[FALSE].console

\* C8: getFitsFileFromQuery, when the query gets a 200 answer (and the file
\* can be opened), leaves the body of the answer in the file and returns True;
\* when the query fails it raises and the file is as it was.
C8_FitsFileWritten ==
    call.op = "getFitsFileFromQuery" =>
        /\ (call.resp # TransportError /\ call.resp.status_code = 200 /\ call.canOpen) =>
            /\ call.res.out = Return(PyTrue)
            /\ files[call.fileName] = call.resp.content
        /\ (call.resp = TransportError \/ call.resp.status_code # 200) =>
            call.res.out.kind = "raise"

ExpectedLabel(dataFrame) ==
    IF dataFrame.indexName = PyNone \/ dataFrame.indexName = PyStr("")
    THEN "index"
    ELSE dataFrame.indexName.data

\* C9: uploadPandasDataFrameToTable serializes the frame with its index, the
\* first label of the header being "index" when the index name is None or
\* empty and the index name otherwise, and hands the text as bytes to one
\* uploadCSVDataToTable call with the same table name and context, whose
\* outcome is its own; the bytes are the body of the request that call issues.
C9_UploadNamesIndex ==
    call.op = "uploadPandasDataFrameToTable" =>
        /\ Len(call.res.calls) = 1
        /\ call.res.calls[1].fn = "uploadCSVDataToTable"
        /\ call.res.calls[1].tableName = call.tableName
        /\ call.res.calls[1].context = call.context
        /\ call.res.out = call.res.calls[1].res.out
        /\ call.res.reqs = call.res.calls[1].res.reqs
        /\ call.res.calls[1].CVSdata.type = "bytes"
        /\ LET lines == call.res.calls[1].CVSdata.lines IN
            /\ Len(lines) = 1 + Len(call.dataFrame.data)
            /\ lines[1] = <<ExpectedLabel(call.dataFrame)>> \o call.dataFrame.columns
            /\ \A i \in 1 .. Len(call.dataFrame.data) :
                /\ lines[i + 1][1] = ToString(call.dataFrame.index[i])
                /\ Len(lines[i + 1]) = 1 + Len(call.dataFrame.data[i])
                /\ \A j \in 1 .. Len(call.dataFrame.data[i]) :
                    lines[i + 1][j + 1] = ToString(call.dataFrame.data[i][j])
        /\ call.res.reqs # <<>> =>
            /\ Len(call.res.reqs) = 1
            /\ call.res.reqs[1].data = call.res.calls[1].CVSdata

C9_Witness ==
    /\ call.op = "uploadPandasDataFrameToTable"
    /\ call.dataFrame.indexName = PyStr("")
    /\ call.res.out = Return(PyTrue)
    /\ call.res.reqs[1].data.lines[1][1] = "index"

\* C10: in a run of waitForJob the events are poll, sleep, poll, sleep, ...:
\* the first event is a poll, every sleep is of 2 seconds and comes right
\* after a poll that reported a status outside {3,4,5}, no sleep follows the
\* poll that reported a status in {3,4,5}, and a run that returns after k
\* polls has slept k - 1 times.
C10_PollsAndSleepsAlternate ==
    \A v \in BOOLEAN : wait[v].pc # "idle" =>
        /\ \A i \in 1 .. Len(wait[v].events) :
            /\ i % 2 = 1 => wait[v].events[i] = Poll
            /\ i % 2 = 0 =>
                /\ wait[v].events[i] = [ev |-> "sleep", secs |-> 2]
                /\ ReportsPending(script[i \div 2])
        /\ wait[v].pc = "loop" => Len(wait[v].events) = 2 * wait[v].polls
        /\ wait[v].pc = "sleep" => Len(wait[v].events) = 2 * wait[v].polls
        /\ wait[v].pc = "returned" =>
            /\ Len(wait[v].events) = 2 * wait[v].polls - 1
            /\ Count(wait[v].events, "sleep") = wait[v].polls - 1
            /\ ReportsTerminal(script[wait[v].polls])

C10_Witness ==
    \E v \in BOOLEAN :
        /\ wait[v].pc = "returned"
        /\ wait[v].polls = 3
        /\ Len(wait[v].events) = 5
        /\ wait[v].events[4] = [ev |-> "sleep", secs |-> 2]
====
